---- MODULE Spec2Model ----
(***************************************************************************)
(* Model of tools/offline-processor/src/main.rs: the batch verifier that   *)
(* builds the issuer key table, dispatches one closure per CSV row to a    *)
(* thread pool, and partitions the outcomes received on an mpsc channel    *)
(* into a success file and a failure file.                                 *)
(*                                                                         *)
(* The main thread is one sequential process (phase); each pool thread is  *)
(* a process that takes a job from the pool's FIFO queue and runs it.      *)
(* File operations (open, create, write_all) are taken to succeed.         *)
(*                                                                         *)
(* Two smaller parts follow the batch verifier, each with a specification  *)
(* of its own: the un-escaping of the credential column (EscSpec) and      *)
(* tools/cbp-dump-processor/src/main.rs (DumpSpec).                        *)
(***************************************************************************)
EXTENDS Integers, Sequences, FiniteSets, Bags, TLC

\* Bounds of the model.
MaxKeys == 2        \* longest --keys list
MaxRows == 2        \* most rows the reader yields after the header line
MaxThreads == 2     \* largest pool size (num_cpus)

(***************************************************************************)
(* The token scheme (challenge_bypass_ristretto::voprf), modelled          *)
(* symbolically: a signing key is a secret scalar with its derived public  *)
(* key, a verification key is determined by (secret, token preimage), and  *)
(* a signature is the MAC of a payload under a verification key.           *)
(***************************************************************************)
RawKeys == {"k1", "k2", "bad"}

\* PublicKey::encode_base64 of the public key derived from a secret.
encode_base64(secret) == IF secret = 1 THEN "P1" ELSE "P2"

\* SigningKey::decode_base64: Err on malformed key material.
decode_base64(k) ==
    CASE k = "k1" -> [ok |-> TRUE, key |-> [k |-> 1, public_key |-> encode_base64(1)]]
      [] k = "k2" -> [ok |-> TRUE, key |-> [k |-> 2, public_key |-> encode_base64(2)]]
      [] OTHER    -> [ok |-> FALSE, key |-> [k |-> 0, public_key |-> ""]]

\* SigningKey::rederive_unblinded_token
rederive_unblinded_token(issuer, t) == [t |-> t, W |-> <<issuer.k, t>>]

\* UnblindedToken::derive_verification_key
derive_verification_key(unblinded) == [key |-> unblinded.W]

\* VerificationKey::sign: the MAC of a message.
sign(vk, message) == [mac |-> <<vk.key, message>>]

\* VerificationKey::verify
verify(vk, signature, message) == signature = sign(vk, message)

(***************************************************************************)
(* Input lines.  A line is the header naming the four columns, a line the  *)
(* csv deserializer rejects, or a row of four columns whose credential     *)
(* column parses.                                                          *)
(***************************************************************************)
Ids == {"r1", "r2"}
PaymentIds == {"pay"}
Timestamps == {"ts"}
PublicKeys == {"P1", "P2"}
Preimages == {"t"}
Payloads == {"x"}
\* Signatures a record may carry: issued by secret 1 over payload "x".
Signatures == {sign(derive_verification_key(rederive_unblinded_token([k |-> 1], t)), "x") : t \in Preimages}

CredentialColumns ==
    [public_key : PublicKeys,
     credential : [t : Preimages, payload : Payloads, signature : Signatures]]

NoCredential ==
    [public_key |-> "",
     credential |-> [t |-> "", payload |-> "", signature |-> [mac |-> <<>>]]]

HeaderLine ==
    [kind |-> "names", id |-> "id", payment_id |-> "payment_id",
     credential |-> NoCredential, timestamp |-> "timestamp"]

JunkLine ==
    [kind |-> "junk", id |-> "", payment_id |-> "",
     credential |-> NoCredential, timestamp |-> ""]

RowLines ==
    [kind : {"row"}, id : Ids, payment_id : PaymentIds,
     credential : CredentialColumns, timestamp : Timestamps]

Lines == {HeaderLine, JunkLine} \cup RowLines

\* struct Record, and the Err of a row that does not deserialize.
NoRecord ==
    [id |-> "", payment_id |-> "", credential |-> NoCredential, timestamp |-> ""]

\* The reader built with has_headers(false).
HasHeadersOff == FALSE

\* csv::ReaderBuilder::new(): has_headers is true unless it is set.
HasHeaders == TRUE

\* reader.deserialize(): when the reader has a header line, a row is
\* matched to Record's fields by the names in it; with none (hdrs = <<>>),
\* by position.
Deserialize(hdrs, row) ==
    IF row.kind = "row" /\ (hdrs = <<>> \/ hdrs[1].kind = "names")
    THEN [ok |-> TRUE,
          record |-> [id |-> row.id, payment_id |-> row.payment_id,
                      credential |-> row.credential, timestamp |-> row.timestamp]]
    ELSE [ok |-> FALSE, record |-> NoRecord]

(***************************************************************************)
(* Key table construction (main.rs 78-87).                                 *)
(***************************************************************************)
EmptyMap == [x \in {} |-> [k |-> 0, public_key |-> ""]]

Insert(m, key, value) ==
    [x \in (DOMAIN m) \cup {key} |-> IF x = key THEN value ELSE m[x]]

\* The table keyed by the key string given on the command line.
TableKeyRaw(raw, key) == raw

\* main.rs 83: (key.public_key.encode_base64(), key), the entry's key is
\* derived from the decoded signing key.
TableKey(raw, key) == key.public_key

RECURSIVE CollectKeysLenient(_, _)
CollectKeysLenient(ks, acc) ==
    IF ks = <<>> THEN [ok |-> TRUE, map |-> acc]
    ELSE LET d == decode_base64(Head(ks)) IN
         IF ~d.ok THEN CollectKeysLenient(Tail(ks), acc)
         ELSE CollectKeysLenient(Tail(ks), Insert(acc, TableKey(Head(ks), d.key), d.key))

\* .map(decode).collect::<Result<HashMap<_, _>>>(): the first Err ends the
\* collect and the entries gathered so far are dropped.
RECURSIVE CollectKeysFrom(_, _)
CollectKeysFrom(ks, acc) ==
    IF ks = <<>> THEN [ok |-> TRUE, map |-> acc]
    ELSE LET d == decode_base64(Head(ks)) IN
         IF ~d.ok THEN [ok |-> FALSE, map |-> EmptyMap]
         ELSE CollectKeysFrom(Tail(ks), Insert(acc, TableKey(Head(ks), d.key), d.key))

\* Only the first key of the list is taken.
CollectKeysFirstOnly(ks) == CollectKeysFrom(<<Head(ks)>>, EmptyMap)

CollectKeys(ks) == CollectKeysFrom(ks, EmptyMap)

(***************************************************************************)
(* The closure run by a pool thread (main.rs 107-135).                     *)
(***************************************************************************)
\* The lookup replaced by a trial of every key of the table.
VerdictTryAll(keys, record) ==
    IF \E pk \in DOMAIN keys :
          verify(derive_verification_key(
                     rederive_unblinded_token(keys[pk], record.credential.credential.t)),
                 record.credential.credential.signature,
                 record.credential.credential.payload)
    THEN [result |-> "Ok", called |-> TRUE]
    ELSE [result |-> "Err", called |-> DOMAIN keys # {}]

\* The inner closure (115-132): Ok(()) or an error; called tells whether
\* verify was reached.
Verdict(keys, record) ==
    IF record.credential.public_key \notin DOMAIN keys
    THEN [result |-> "Err", called |-> FALSE]
    ELSE LET issuer == keys[record.credential.public_key]
             server_unblinded_token ==
                 rederive_unblinded_token(issuer, record.credential.credential.t)
             server_verification_key ==
                 derive_verification_key(server_unblinded_token)
         IN  IF verify(server_verification_key,
                       record.credential.credential.signature,
                       record.credential.credential.payload)
             THEN [result |-> "Ok", called |-> TRUE]
             ELSE [result |-> "Err", called |-> TRUE]

\* A copy-paste slip in the OutRecord literal: id filled from payment_id.
OutRecordSlip(record) ==
    [id |-> record.payment_id, payment_id |-> record.payment_id,
     timestamp |-> record.timestamp]

\* main.rs 109-113
OutRecord(record) ==
    [id |-> record.id, payment_id |-> record.payment_id,
     timestamp |-> record.timestamp]

VARIABLES
    args_keys,      \* Cli.keys
    num_threads,    \* the pool's size
    phase,          \* where the main thread is
    KEYS,           \* the OnceCell: [set, map]
    headers,        \* the reader's header line: <<>> until it is read
    num_jobs,
    jobs,           \* jobs[j]: the line captured by the j-th closure
    queue,          \* the pool's queue of job numbers
    worker,         \* worker[w]: the job thread w runs, 0 when idle
    chan,           \* messages sent and not yet received
    received,       \* items the take(num_jobs) iterator has yielded
    success_file,
    failure_file,
    success_jobs,   \* history: the job behind each success_file line
    failure_jobs,   \* history: the job behind each failure_file line
    sends,          \* history: sends[j] = tx.send calls made by job j
    panicked,       \* history: jobs whose closure panicked
    verify_calls,   \* history: jobs whose closure called verify
    lines_read      \* history: lines of the input file the reader consumed

\* The escape round trip of the credential column (main.rs 57-66).
VARIABLES
    esc_pc,         \* "idle", "text", "escaped", "decoded"
    cred_text,      \* the structured credential string, as characters
    wire_text,      \* its escape-encoding, as it stands in the input file
    unescaped       \* what the decoder's two replace calls make of it

\* tools/cbp-dump-processor/src/main.rs.
VARIABLES
    dump_pc,        \* "idle", "running", "done", "error", "panic"
    stdin_rows,     \* the rows on stdin
    rdr_pos,        \* rows the reader has yielded
    stdout_rows     \* rows written to the writer

main_vars == <<args_keys, num_threads, phase, KEYS, headers, num_jobs, jobs,
               queue, worker, chan, received, success_file, failure_file,
               success_jobs, failure_jobs, sends, panicked, verify_calls,
               lines_read>>

esc_vars == <<esc_pc, cred_text, wire_text, unescaped>>

dump_vars == <<dump_pc, stdin_rows, rdr_pos, stdout_rows>>

vars == <<main_vars, esc_vars, dump_vars>>

KeyLists == UNION {[1..n -> RawKeys] : n \in 1..MaxKeys}

\* The other two programs at rest.
EscIdle ==
    /\ esc_pc = "idle"
    /\ cred_text = <<>>
    /\ wire_text = <<>>
    /\ unescaped = <<>>

DumpIdle ==
    /\ dump_pc = "idle"
    /\ stdin_rows = <<>>
    /\ rdr_pos = 0
    /\ stdout_rows = <<>>

\* The batch verifier before main's first statement, given its arguments.
MainStart(keys, threads) ==
    /\ args_keys = keys
    /\ num_threads = threads
    /\ phase = "Initializing"
    /\ KEYS = [set |-> FALSE, map |-> EmptyMap]
    /\ headers = <<>>
    /\ num_jobs = 0
    /\ jobs = <<>>
    /\ queue = <<>>
    /\ worker = [w \in 1..num_threads |-> 0]
    /\ chan = <<>>
    /\ received = 0
    /\ success_file = <<>>
    /\ failure_file = <<>>
    /\ success_jobs = <<>>
    /\ failure_jobs = <<>>
    /\ sends = <<>>
    /\ panicked = {}
    /\ verify_calls = {}
    /\ lines_read = 0

Init ==
    /\ \E keys \in KeyLists, threads \in 1..MaxThreads : MainStart(keys, threads)
    /\ EscIdle
    /\ DumpIdle

(***************************************************************************)
(* The main thread.                                                        *)
(***************************************************************************)
\* main.rs 76-101: decode the keys and set KEYS, or return the error; then
\* open the input, build the pool and the channel.
BuildKeyTable ==
    /\ phase = "Initializing"
    /\ LET keys == CollectKeys(args_keys) IN
         IF keys.ok
         THEN /\ KEYS' = [set |-> TRUE, map |-> keys.map]
              /\ phase' = "Dispatching"
         ELSE /\ KEYS' = KEYS
              /\ phase' = "Aborted"
    /\ UNCHANGED <<esc_vars, dump_vars, lines_read, args_keys, num_threads, headers, num_jobs, jobs, queue, worker,
                   chan, received, success_file, failure_file, success_jobs,
                   failure_jobs, sends, panicked, verify_calls>>

\* The header line the reader holds once a row has been read: the first
\* call of the deserializing iterator reads it from the file's first line.
ReadHeaders ==
    IF ~HasHeaders THEN {<<>>}
    ELSE IF headers = <<>> THEN {<<h>> : h \in Lines} ELSE {headers}

\* The same at the end of the file, which may be empty.
ReadHeadersAtEnd == IF headers = <<>> THEN {<<>>} \cup ReadHeaders ELSE {headers}

\* Lines the reader consumes when its header line becomes h.
HeaderLinesRead(h) == Len(h) - Len(headers)

\* A bounded queue that drops the job when another one is waiting.
ExecuteDrops(q, job) == IF q # <<>> THEN q ELSE Append(q, job)

\* pool.execute: the job is queued, the call never waits.
Execute(q, job) == Append(q, job)

\* main.rs 102-136, one iteration: count the job and hand the closure,
\* holding the line and a clone of tx, to the pool.
Dispatch ==
    /\ phase = "Dispatching"
    /\ KEYS.set
    /\ num_jobs < MaxRows
    /\ \E h \in ReadHeaders, row \in Lines :
         /\ headers' = h
         /\ num_jobs' = num_jobs + 1
         /\ jobs' = Append(jobs, Deserialize(h, row))
         /\ lines_read' = lines_read + HeaderLinesRead(h) + 1
         /\ queue' = Execute(queue, num_jobs + 1)
         /\ sends' = Append(sends, 0)
    /\ UNCHANGED <<esc_vars, dump_vars, args_keys, num_threads, phase, KEYS, worker, chan, received,
                   success_file, failure_file, success_jobs, failure_jobs,
                   panicked, verify_calls>>

\* main.rs 102, 138-141: the iterator is exhausted; create the two files.
EndDispatch ==
    /\ phase = "Dispatching"
    /\ \E h \in ReadHeadersAtEnd :
         /\ headers' = h
         /\ lines_read' = lines_read + HeaderLinesRead(h)
    /\ phase' = "Draining"
    /\ UNCHANGED <<esc_vars, dump_vars, args_keys, num_threads, KEYS, num_jobs, jobs, queue, worker,
                   chan, received, success_file, failure_file, success_jobs,
                   failure_jobs, sends, panicked, verify_calls>>

\* format!("{},{},{}\n", ...)
FormatLine(record) == <<record.id, record.payment_id, record.timestamp>>

\* The two arms of the match exchanged.
ToSuccessSwapped(result) == result = "Err"

\* match result { Ok(_) => success_file, Err(_) => failure_file }
ToSuccess(result) == result = "Ok"

\* The senders had main dropped its tx after the dispatch loop.
SendersAliveClonesOnly ==
    Len(queue) + Cardinality({w \in DOMAIN worker : worker[w] # 0})

\* Senders of the channel still alive: main's tx, which lives until main
\* returns, and the clone held by every closure queued or running.
SendersAlive ==
    1 + Len(queue) + Cardinality({w \in DOMAIN worker : worker[w] # 0})

\* rx.iter() yields None once the channel is empty and has no sender.
Disconnected == chan = <<>> /\ SendersAlive = 0

\* An off-by-one count.
TakeCountShort == IF num_jobs > 0 THEN num_jobs - 1 ELSE 0

\* take(n): how many items the collector asks for.
TakeCount == num_jobs

\* The collector as a thread of its own, started with the pool.
CollectorStartedEarly == phase \in {"Dispatching", "Draining"}

\* The collector loop (143) is main's own code after the dispatch loop: it
\* runs once the reader is exhausted and the two files are created.
CollectorStarted == phase = "Draining"

\* write_all on a file reopened for each line: the line replaces the
\* file's content.
WriteAllTruncating(file, line) == <<line>>

\* file.write_all(line.as_bytes()) on the handle File::create returned: the
\* bytes go after what the handle has written.
WriteAll(file, line) == Append(file, line)

\* main.rs 143-149, one iteration: receive a message, write its line.
Collect ==
    /\ CollectorStarted
    /\ received < TakeCount
    /\ chan # <<>>
    /\ LET msg == Head(chan) IN
         /\ chan' = Tail(chan)
         /\ received' = received + 1
         /\ IF ToSuccess(msg.result)
            THEN /\ success_file' = WriteAll(success_file, FormatLine(msg.out))
                 /\ success_jobs' = Append(success_jobs, msg.job)
                 /\ UNCHANGED <<failure_file, failure_jobs>>
            ELSE /\ failure_file' = WriteAll(failure_file, FormatLine(msg.out))
                 /\ failure_jobs' = Append(failure_jobs, msg.job)
                 /\ UNCHANGED <<success_file, success_jobs>>
    /\ UNCHANGED <<esc_vars, dump_vars, lines_read, args_keys, num_threads, phase, KEYS, headers, num_jobs, jobs,
                   queue, worker, sends, panicked, verify_calls>>

\* main.rs 143, 151-153: the iterator ends (take is used up, or rx.iter()
\* has ended) and main returns Ok.
Finish ==
    /\ phase = "Draining"
    /\ received >= TakeCount \/ Disconnected
    /\ phase' = "Finalized"
    /\ UNCHANGED <<esc_vars, dump_vars, lines_read, args_keys, num_threads, KEYS, headers, num_jobs, jobs, queue,
                   worker, chan, received, success_file, failure_file,
                   success_jobs, failure_jobs, sends, panicked, verify_calls>>

(***************************************************************************)
(* The pool threads.  They run while the process does: from the pool's     *)
(* creation until main returns.                                            *)
(***************************************************************************)
Running == phase \in {"Dispatching", "Draining"}

\* A receive that leaves the job in the queue.
DequeuePeek(q) == q

\* The pool's job receiver, taken under its lock: the job received is
\* removed from the queue.
Dequeue(q) == Tail(q)

\* A thread takes the oldest queued job.
WorkerTake(w) ==
    /\ w \in DOMAIN worker
    /\ Running
    /\ worker[w] = 0
    /\ queue # <<>>
    /\ worker' = [worker EXCEPT ![w] = Head(queue)]
    /\ queue' = Dequeue(queue)
    /\ UNCHANGED <<esc_vars, dump_vars, lines_read, args_keys, num_threads, phase, KEYS, headers, num_jobs, jobs,
                   chan, received, success_file, failure_file, success_jobs,
                   failure_jobs, sends, panicked, verify_calls>>

\* The line a closure owns: `move` gives each closure its own line.
CapturedLineShared(job) == jobs[Len(jobs)]

CapturedLine(job) == jobs[job]

\* The closure with `?` applied to the verdict before the send: an Err
\* leaves the closure and nothing is sent.
ClosureEarlyReturn(keys, line, job) ==
    IF ~line.ok \/ Verdict(keys, line.record).result = "Err" THEN <<>>
    ELSE <<[result |-> "Ok", out |-> OutRecord(line.record), job |-> job]>>

\* main.rs 108-134: the messages the closure sends; none when
\* line.expect panics.
Closure(keys, line, job) ==
    IF ~line.ok THEN <<>>
    ELSE <<[result |-> Verdict(keys, line.record).result,
            out |-> OutRecord(line.record),
            job |-> job]>>

\* A closure that also logs its Err line to the failure file itself.
ClosureWritesErr(out) ==
    IF out # <<>> /\ out[1].result = "Err" THEN <<FormatLine(out[1].out)>> ELSE <<>>

\* Lines the closure writes to the failure file: it captures the line and
\* a clone of tx, and the files do not exist until the dispatch loop ends.
ClosureWrites(out) == <<>>

\* A thread runs its job to the end: the closure sends its outcome, or
\* panics and the pool replaces the thread.
WorkerRun(w) ==
    /\ w \in DOMAIN worker
    /\ Running
    /\ worker[w] # 0
    /\ LET job == worker[w]
           line == CapturedLine(job)
           out == Closure(KEYS.map, line, job)
       IN  /\ chan' = chan \o out
           /\ sends' = [sends EXCEPT ![job] = @ + Len(out)]
           /\ panicked' = IF line.ok THEN panicked ELSE panicked \cup {job}
           /\ verify_calls' = IF line.ok /\ Verdict(KEYS.map, line.record).called
                              THEN verify_calls \cup {job} ELSE verify_calls
           /\ failure_file' = failure_file \o ClosureWrites(out)
           /\ failure_jobs' = failure_jobs \o [i \in DOMAIN ClosureWrites(out) |-> job]
    /\ worker' = [worker EXCEPT ![w] = 0]
    /\ UNCHANGED <<esc_vars, dump_vars, lines_read, args_keys, num_threads, phase, KEYS, headers, num_jobs, jobs,
                   queue, received, success_file, success_jobs>>

Next ==
    \/ BuildKeyTable
    \/ Dispatch
    \/ EndDispatch
    \/ Collect
    \/ Finish
    \/ \E w \in DOMAIN worker : WorkerTake(w)
    \/ \E w \in DOMAIN worker : WorkerRun(w)

Spec == Init /\ [][Next]_vars

\* The operating system schedules every thread that can run.
FairSpec ==
    /\ Spec
    /\ WF_vars(BuildKeyTable)
    /\ WF_vars(EndDispatch)
    /\ WF_vars(Collect)
    /\ WF_vars(Finish)
    /\ \A w \in 1..MaxThreads : WF_vars(WorkerTake(w)) /\ WF_vars(WorkerRun(w))

(***************************************************************************)
(* Properties.                                                             *)
(***************************************************************************)
JobIds == 1..num_jobs

Decoded(j) == jobs[j].ok

RecordOf(j) == jobs[j].record

AllDecode == \A j \in JobIds : Decoded(j)

\* The correlation fields of the j-th input record.
InputTuple(j) == <<RecordOf(j).id, RecordOf(j).payment_id, RecordOf(j).timestamp>>

InputTuples == [j \in JobIds |-> InputTuple(j)]

Range(s) == {s[i] : i \in DOMAIN s}

Count(s, x) == Cardinality({i \in DOMAIN s : s[i] = x})

IssuerKnown(j) == RecordOf(j).credential.public_key \in DOMAIN KEYS.map

\* What the verification service answers for record j under a signing key.
ServiceAnswer(key, j) ==
    verify(derive_verification_key(
               rederive_unblinded_token(key, RecordOf(j).credential.credential.t)),
           RecordOf(j).credential.credential.signature,
           RecordOf(j).credential.credential.payload)

\* Job j has exactly one line, in the given ledger, and it is j's tuple.
LandedIn(j, ledger, ledger_jobs) ==
    /\ Count(ledger_jobs, j) = 1
    /\ \A i \in DOMAIN ledger_jobs : ledger_jobs[i] = j => ledger[i] = InputTuple(j)

\* C1: when every record of the batch decodes, at Finalized the tuples of
\* the success file and the failure file together are, as a multiset, the
\* tuples of the input records: the sizes add up to the number of records
\* and every record has exactly one line, in exactly one of the files.
C1_LedgersPartitionInput ==
    (phase = "Finalized" /\ AllDecode) =>
        /\ Len(success_file) + Len(failure_file) = num_jobs
        /\ \A x \in Range(InputTuples) \cup Range(success_file) \cup Range(failure_file) :
               Count(success_file, x) + Count(failure_file, x) = Count(InputTuples, x)
        /\ \A j \in JobIds :
               \/ LandedIn(j, success_file, success_jobs) /\ Count(failure_jobs, j) = 0
               \/ LandedIn(j, failure_file, failure_jobs) /\ Count(success_jobs, j) = 0

\* A finalized batch of two records with equal tuples, one in each file,
\* collected out of submission order.
C1_Witness ==
    /\ phase = "Finalized"
    /\ num_jobs = 2
    /\ AllDecode
    /\ InputTuple(1) = InputTuple(2)
    /\ success_jobs = <<2>>
    /\ failure_jobs = <<1>>

\* C2: a record whose issuer public key is not in the key table never has
\* a line in the success file, its closure never calls verify, the message
\* it sends is an Err, and at Finalized it has its line in the failure file.
C2_UnknownIssuerFails ==
    \A j \in JobIds :
        (Decoded(j) /\ KEYS.set /\ ~IssuerKnown(j)) =>
            /\ Count(success_jobs, j) = 0
            /\ j \notin verify_calls
            /\ \A i \in DOMAIN chan : chan[i].job = j => chan[i].result = "Err"
            /\ phase = "Finalized" => LandedIn(j, failure_file, failure_jobs)

\* A finalized batch with a record in the failure file whose issuer is
\* not in the table although the service would accept it under the key it
\* names.
C2_Witness ==
    /\ phase = "Finalized"
    /\ \E j \in JobIds :
          /\ Decoded(j)
          /\ ~IssuerKnown(j)
          /\ \E d \in {decode_base64(k) : k \in RawKeys} :
                /\ d.ok
                /\ d.key.public_key = RecordOf(j).credential.public_key
                /\ ServiceAnswer(d.key, j)
          /\ LandedIn(j, failure_file, failure_jobs)

\* C3: for a record whose issuer public key is in the key table, the file
\* is decided by the service's answer under that issuer's key: on a pass
\* the record never has a line in the failure file and at Finalized has its
\* line in the success file; on a fail the other way round.
C3_KnownIssuerByVerification ==
    \A j \in JobIds :
        (Decoded(j) /\ KEYS.set /\ IssuerKnown(j)) =>
            LET pass == ServiceAnswer(KEYS.map[RecordOf(j).credential.public_key], j)
            IN  /\ pass => /\ Count(failure_jobs, j) = 0
                           /\ phase = "Finalized" =>
                                  LandedIn(j, success_file, success_jobs)
                /\ ~pass => /\ Count(success_jobs, j) = 0
                            /\ phase = "Finalized" =>
                                   LandedIn(j, failure_file, failure_jobs)

\* A finalized batch under a table of two keys, with one record that
\* passes and one that names a known issuer and fails.
C3_Witness ==
    /\ phase = "Finalized"
    /\ Cardinality(DOMAIN KEYS.map) = 2
    /\ \E j1, j2 \in JobIds :
          /\ Decoded(j1) /\ IssuerKnown(j1)
          /\ Decoded(j2) /\ IssuerKnown(j2)
          /\ ServiceAnswer(KEYS.map[RecordOf(j1).credential.public_key], j1)
          /\ ~ServiceAnswer(KEYS.map[RecordOf(j2).credential.public_key], j2)
          /\ Count(success_jobs, j1) = 1
          /\ Count(failure_jobs, j2) = 1

SomeKeyMalformed == \E i \in DOMAIN args_keys : ~decode_base64(args_keys[i]).ok

\* C4: when some key of the list does not decode, wherever it stands, KEYS
\* is never set, the table holds no key, no job is ever dispatched and the
\* run ends Aborted at its first step.
C4_KeyTableAllOrNothing ==
    SomeKeyMalformed =>
        /\ ~KEYS.set
        /\ DOMAIN KEYS.map = {}
        /\ num_jobs = 0
        /\ phase \in {"Initializing", "Aborted"}

\* An aborted run whose key list holds a valid key before a malformed one.
C4_Witness ==
    /\ phase = "Aborted"
    /\ Len(args_keys) = 2
    /\ decode_base64(args_keys[1]).ok
    /\ ~decode_base64(args_keys[2]).ok

\* The run with one worker that takes the lines in order: the tuples it
\* writes to the success file (ok = TRUE) or to the failure file.
RECURSIVE InOrder(_, _, _)
InOrder(keys, lines, ok) ==
    IF lines = <<>> THEN {}
    ELSE LET out == Closure(keys, Head(lines), 0)
             here == IF out # <<>> /\ ToSuccess(out[1].result) = ok
                     THEN {FormatLine(out[1].out)} ELSE {}
         IN  here \cup InOrder(keys, Tail(lines), ok)

\* C5: at Finalized the set of tuples in each file is the one the in-order
\* run of the same key list and the same lines yields, whatever the pool
\* size and the interleaving.
C5_MembershipIndependentOfScheduling ==
    phase = "Finalized" =>
        /\ Range(success_file) = InOrder(CollectKeys(args_keys).map, jobs, TRUE)
        /\ Range(failure_file) = InOrder(CollectKeys(args_keys).map, jobs, FALSE)

\* A finalized run of a pool of two threads in which the second record's
\* outcome was collected before the first's, into different files.
C5_Witness ==
    /\ phase = "Finalized"
    /\ num_threads = 2
    /\ num_jobs = 2
    /\ InputTuple(1) # InputTuple(2)
    /\ \/ success_jobs = <<2>> /\ failure_jobs = <<1>>
       \/ success_jobs = <<2, 1>>

\* The messages of job j that are in the channel.
InChannel(j) == Cardinality({i \in DOMAIN chan : chan[i].job = j})

\* C6: no job ever sends two outcomes, every outcome sent is in the channel
\* or behind a ledger line, and under fair scheduling the run comes to
\* stay where every submitted record (a line that decoded) has sent
\* exactly one.
C6_ExactlyOneOutcome ==
    /\ [](\A j \in JobIds :
            /\ sends[j] <= 1
            /\ InChannel(j) + Count(success_jobs, j) + Count(failure_jobs, j) = sends[j])
    /\ <>[](phase # "Dispatching" /\ \A j \in JobIds : Decoded(j) => sends[j] = 1)

\* Main is still dispatching while the outcome of an earlier record waits
\* in the channel and a later record has not run yet.
C6_Witness ==
    /\ phase = "Dispatching"
    /\ num_jobs = 2
    /\ Decoded(1) /\ sends[1] = 1 /\ InChannel(1) = 1
    /\ Decoded(2) /\ sends[2] = 0

\* C7: the collector receives at most num_jobs outcomes, num_jobs being
\* the number of jobs dispatched; it writes one line per outcome received;
\* it receives only in Draining; the run is Finalized only with num_jobs
\* received; and under fair scheduling a run that is Draining a batch of
\* records (every line decoded) reaches Finalized.
C7_CollectorDrainsExactly ==
    /\ [](/\ num_jobs = Len(jobs)
          /\ received <= num_jobs
          /\ Len(success_file) + Len(failure_file) = received
          /\ phase \in {"Initializing", "Dispatching", "Aborted"} => received = 0
          /\ phase = "Finalized" => received = num_jobs)
    /\ (phase = "Draining" /\ AllDecode) ~> (phase = "Finalized")

\* A finalized run that received both outcomes of a batch of two.
C7_Witness ==
    /\ phase = "Finalized"
    /\ num_jobs = 2
    /\ received = 2
    /\ chan = <<>>

Quiescent ==
    /\ queue = <<>>
    /\ chan = <<>>
    /\ \A w \in DOMAIN worker : worker[w] = 0

\* C8: in every execution, the ones in which a closure panicked included,
\* a Finalized run has as many ledger lines as jobs were submitted, and no
\* run in which a closure panicked is ever Finalized.
C8_NoSilentShortCount ==
    /\ phase = "Finalized" => Len(success_file) + Len(failure_file) = Len(jobs)
    /\ panicked # {} => phase # "Finalized"

\* A closure has panicked, every other outcome is collected and nothing
\* is left to run: the collector waits and the run is not Finalized.
C8_Witness ==
    /\ phase = "Draining"
    /\ panicked # {}
    /\ Quiescent
    /\ received = 1
    /\ num_jobs = 2

\* C9: a run in which a line failed to decode (its closure panicked) and
\* in which no thread can take a step has ended Aborted.
C9_DecodeFailureAborts ==
    (panicked # {} /\ ~ENABLED Next) => phase = "Aborted"

\* Record j is an UnknownIssuer or a SignatureMismatch.
PerRecordFailure(j) ==
    /\ Decoded(j)
    /\ IssuerKnown(j) =>
           ~ServiceAnswer(KEYS.map[RecordOf(j).credential.public_key], j)

InOneLedger(j) ==
    \/ LandedIn(j, success_file, success_jobs) /\ Count(failure_jobs, j) = 0
    \/ LandedIn(j, failure_file, failure_jobs) /\ Count(success_jobs, j) = 0

\* C10: a run is Aborted only by a malformed key, before any record; no
\* closure given a record panics; a record that fails never has a success
\* line; under fair scheduling a Draining batch of records, some of which
\* fail, reaches Finalized; and at Finalized every failing record has its
\* line in the failure file and every other record of the batch its line
\* in one file.
C10_RecordFailuresStayLocal ==
    /\ [](/\ phase = "Aborted" => SomeKeyMalformed /\ num_jobs = 0
          /\ \A j \in panicked : ~Decoded(j)
          /\ \A j \in JobIds : PerRecordFailure(j) => Count(success_jobs, j) = 0
          /\ (phase = "Finalized" /\ \E j \in JobIds : PerRecordFailure(j)) =>
                 \A j \in JobIds :
                     /\ InOneLedger(j)
                     /\ PerRecordFailure(j) => LandedIn(j, failure_file, failure_jobs))
    /\ (phase = "Draining" /\ AllDecode /\ \E j \in JobIds : PerRecordFailure(j))
           ~> (phase = "Finalized")

\* A finalized batch whose first record fails and whose second record,
\* dispatched after it, is in the success file.
C10_Witness ==
    /\ phase = "Finalized"
    /\ num_jobs = 2
    /\ PerRecordFailure(1)
    /\ LandedIn(1, failure_file, failure_jobs)
    /\ ~PerRecordFailure(2)
    /\ LandedIn(2, success_file, success_jobs)

(***************************************************************************)
(* The credential column's escaping (main.rs 57-66, 95).  Strings are      *)
(* sequences of characters.                                                *)
(***************************************************************************)
MaxText == 3        \* longest credential string tried

\* Characters: the escape character, the comma, the reader's delimiter and
\* any other character.
Chars == {"\\", ",", ";", "a"}

Texts == UNION {[1..n -> Chars] : n \in 0..MaxText}

\* .delimiter(b';')
Delimiter == ";"

EscapeChar == "\\"

\* The escape-encoding of the nested field: every occurrence of the
\* delimiter and of the escape character is preceded by the escape
\* character.
RECURSIVE Escape(_)
Escape(text) ==
    IF text = <<>> THEN <<>>
    ELSE (IF Head(text) \in {Delimiter, EscapeChar}
          THEN <<EscapeChar, Head(text)>> ELSE <<Head(text)>>)
         \o Escape(Tail(text))

\* str::replace: every non-overlapping occurrence of from, found from the
\* left, becomes to.
RECURSIVE Replace(_, _, _)
Replace(text, from, to) ==
    IF Len(text) < Len(from) THEN text
    ELSE IF SubSeq(text, 1, Len(from)) = from
         THEN to \o Replace(SubSeq(text, Len(from) + 1, Len(text)), from, to)
         ELSE <<Head(text)>> \o Replace(Tail(text), from, to)

\* s.replace("\\,", ",").replace("\\\\", "\\")
Unescape(text) ==
    Replace(Replace(text, <<"\\", ",">>, <<",">>), <<"\\", "\\">>, <<"\\">>)

\* A credential string is chosen.
EscChoose ==
    /\ esc_pc = "idle"
    /\ \E text \in Texts : cred_text' = text
    /\ esc_pc' = "text"
    /\ UNCHANGED <<main_vars, dump_vars, wire_text, unescaped>>

\* It is escape-encoded into the input file.
EscEncode ==
    /\ esc_pc = "text"
    /\ wire_text' = Escape(cred_text)
    /\ esc_pc' = "escaped"
    /\ UNCHANGED <<main_vars, dump_vars, cred_text, unescaped>>

\* deserialize_json_string_credentialcolumn un-escapes the column.
EscDecode ==
    /\ esc_pc = "escaped"
    /\ unescaped' = Unescape(wire_text)
    /\ esc_pc' = "decoded"
    /\ UNCHANGED <<main_vars, dump_vars, cred_text, wire_text>>

EscNext == EscChoose \/ EscEncode \/ EscDecode

\* Nothing has been started; the batch verifier stays as it is.
AtRest ==
    /\ MainStart(<<"k1">>, 1)
    /\ EscIdle
    /\ DumpIdle

EscSpec == AtRest /\ [][EscNext]_vars

\* C11: escape-encoding a credential string and un-escaping the result
\* gives the string back, whatever delimiters and escape characters it
\* holds.
C11_EscapeRoundTrip == esc_pc = "decoded" => unescaped = cred_text

(***************************************************************************)
(* The header line (main.rs 94-104).                                       *)
(***************************************************************************)
LedgerEntries == Len(success_file) + Len(failure_file)

\* C12 as stated: every line the reader has consumed, the first included,
\* is dispatched and counted in num_jobs, and a Finalized run has one ledger
\* entry per line of the file.
C12_EveryLineIsARecord ==
    /\ num_jobs = lines_read
    /\ phase = "Finalized" => LedgerEntries = lines_read

\* C12: the first line of the file is taken as the header line and is
\* neither dispatched nor counted; every line after it is dispatched and
\* counted in num_jobs; so a Finalized run over a file of n >= 1 lines has
\* n - 1 ledger entries, and none over an empty file.
C12_FirstLineIsHeader ==
    /\ Len(headers) <= 1
    /\ lines_read >= 1 => Len(headers) = 1
    /\ num_jobs = lines_read - Len(headers)
    /\ phase = "Finalized" =>
           LedgerEntries = (IF lines_read = 0 THEN 0 ELSE lines_read - 1)

\* A finalized run over a file of three lines: two ledger entries.
C12_Witness ==
    /\ phase = "Finalized"
    /\ lines_read = 3
    /\ num_jobs = 2
    /\ LedgerEntries = 2
    /\ headers # <<>>

(***************************************************************************)
(* The phases of the run (main.rs 75-153).                                 *)
(***************************************************************************)
PhaseRank(p) ==
    CASE p = "Initializing" -> 1
      [] p = "Dispatching"  -> 2
      [] p = "Draining"     -> 3
      [] p = "Finalized"    -> 4
      [] OTHER              -> 0

\* C13: a run starts Initializing; every change of phase goes to the next
\* phase of Initializing, Dispatching, Draining, Finalized, or to Aborted
\* from a phase that is not final; a record is submitted only in
\* Dispatching with the key table built; the collector receives, and a
\* ledger grows, only in Draining; and num_jobs does not change from
\* Draining on.
C13_PhaseOrder ==
    /\ phase = "Initializing"
    /\ [][/\ phase' # phase =>
                 /\ PhaseRank(phase) \in 1..3
                 /\ \/ PhaseRank(phase') = PhaseRank(phase) + 1
                    \/ phase' = "Aborted"
          /\ (num_jobs' # num_jobs \/ jobs' # jobs \/ Len(queue') > Len(queue))
                 => phase = "Dispatching" /\ KEYS.set
          /\ (received' # received \/ success_file' # success_file
                  \/ failure_file' # failure_file) => phase = "Draining"
          /\ phase \in {"Draining", "Finalized"} => num_jobs' = num_jobs]_vars

\* Draining has begun with nothing received yet, while an outcome sent
\* during Dispatching waits in the channel.
C13_Witness ==
    /\ phase = "Draining"
    /\ num_jobs = 2
    /\ received = 0
    /\ chan # <<>>
    /\ queue # <<>>

(***************************************************************************)
(* The key table's lifecycle (main.rs 18, 78-106).                         *)
(***************************************************************************)
\* The table the argument list stands for: every key decoded, under its
\* derived public key.
SuppliedKeys == {decode_base64(args_keys[i]).key : i \in DOMAIN args_keys}

\* C14: KEYS changes only once, from unset to set, in Initializing and
\* before any job is dispatched; jobs are dispatched and run only with KEYS
\* set; the table set holds every supplied key under its public key and
\* nothing else; and when a key fails to decode KEYS is never set, no job
\* is dispatched and no ledger line is written.
C14_KeyTableSetOnce ==
    /\ [][KEYS' # KEYS =>
              /\ ~KEYS.set /\ KEYS'.set
              /\ phase = "Initializing" /\ num_jobs = 0]_vars
    /\ []((num_jobs > 0 \/ \E w \in DOMAIN worker : worker[w] # 0) => KEYS.set)
    /\ [](KEYS.set =>
              /\ DOMAIN KEYS.map = {key.public_key : key \in SuppliedKeys}
              /\ \A pk \in DOMAIN KEYS.map : KEYS.map[pk] \in SuppliedKeys)
    /\ [](SomeKeyMalformed => ~KEYS.set /\ num_jobs = 0 /\ LedgerEntries = 0)

\* Two workers run their jobs under a table of two keys.
C14_Witness ==
    /\ KEYS.set
    /\ Cardinality(DOMAIN KEYS.map) = 2
    /\ num_jobs = 2
    /\ \A w \in DOMAIN worker : worker[w] # 0
    /\ Cardinality(DOMAIN worker) = 2

(***************************************************************************)
(* Blocking (main.rs 98-143).                                              *)
(***************************************************************************)
\* C15: while main dispatches, the next record can always be submitted,
\* whatever is queued or running; a worker holding a job can always run it
\* to its send; and until the run is Finalized some thread can take a
\* step.
C15_NeverAllBlocked ==
    /\ (phase = "Dispatching" /\ num_jobs < MaxRows) => ENABLED Dispatch
    /\ \A w \in DOMAIN worker : (Running /\ worker[w] # 0) => ENABLED WorkerRun(w)
    /\ Running => ENABLED Next

(***************************************************************************)
(* The pool (main.rs 97-135).                                              *)
(***************************************************************************)
\* Jobs a closure is running: dispatched, taken from the queue, and neither
\* sent nor panicked yet.
InFlight ==
    {j \in JobIds : j \notin Range(queue) /\ sends[j] = 0 /\ j \notin panicked}

Busy == {w \in DOMAIN worker : worker[w] # 0}

\* C16: the jobs being run are the jobs the threads hold, one each and no
\* job on two threads, so they number at most the pool size; and whether a
\* thread can step depends on its own job and on the queue only: a thread
\* holding a job can run it, an idle thread can take a job whenever one is
\* queued, whatever the other threads hold.
C16_BoundedConcurrency ==
    /\ DOMAIN worker = 1..num_threads
    /\ InFlight = {worker[w] : w \in Busy}
    /\ \A w1, w2 \in Busy : worker[w1] = worker[w2] => w1 = w2
    /\ Cardinality(InFlight) <= num_threads
    /\ \A w \in DOMAIN worker :
           /\ ENABLED WorkerRun(w) <=> (Running /\ worker[w] # 0)
           /\ ENABLED WorkerTake(w) <=> (Running /\ worker[w] = 0 /\ queue # <<>>)

\* A batch larger than the pool: the only thread runs the first job while
\* the second waits in the queue.
C16_Witness ==
    /\ num_threads = 1
    /\ worker[1] = 1
    /\ queue = <<2>>

(***************************************************************************)
(* The ledgers (main.rs 107-135, 140-149).                                 *)
(***************************************************************************)
LedgersChange == success_file' # success_file \/ failure_file' # failure_file

\* C17: a step that changes a ledger is a step of the collector (it
\* receives the head of the channel, in Draining, and leaves the pool
\* alone); a step of the dispatch loop or of a worker (a job is added,
\* taken, run, or its outcome sent) leaves both ledgers as they are.
C17_SingleWriter ==
    [][/\ LedgersChange =>
              /\ phase = "Draining"
              /\ chan # <<>> /\ chan' = Tail(chan)
              /\ received' = received + 1
              /\ UNCHANGED <<num_jobs, jobs, queue, worker, sends, panicked>>
       /\ (num_jobs' # num_jobs \/ queue' # queue \/ worker' # worker
               \/ sends' # sends \/ panicked' # panicked)
              => UNCHANGED <<success_file, failure_file>>]_vars

\* A worker has looked up the key and sent an Err, another has sent an Ok,
\* and no ledger has a line yet.
C17_Witness ==
    /\ Len(chan) = 2
    /\ chan[1].result = "Err"
    /\ chan[2].result = "Ok"
    /\ LedgerEntries = 0

\* C18: a ledger only changes by getting the line of the outcome received
\* appended after the lines it has, the other ledger staying as it is; and
\* every outcome the collector receives does that to exactly one ledger.
C18_AppendOnly ==
    [][/\ success_file' # success_file =>
              /\ chan # <<>>
              /\ success_file' = Append(success_file, FormatLine(Head(chan).out))
              /\ failure_file' = failure_file
       /\ failure_file' # failure_file =>
              /\ chan # <<>>
              /\ failure_file' = Append(failure_file, FormatLine(Head(chan).out))
              /\ success_file' = success_file
       /\ received' # received =>
              /\ received' = received + 1
              /\ Len(success_file') + Len(failure_file') = LedgerEntries + 1]_vars

\* The second line has been appended to a ledger.
C18_Witness ==
    /\ Len(success_file) = 2
    /\ success_file[1] # success_file[2]
    /\ received = 2

(***************************************************************************)
(* The key table's keys (main.rs 78-86).                                   *)
(***************************************************************************)
\* Some key of the argument list decodes to a signing key whose derived
\* public key is pk.
Derives(pk) ==
    \E i \in DOMAIN args_keys :
        /\ decode_base64(args_keys[i]).ok
        /\ encode_base64(decode_base64(args_keys[i]).key.k) = pk

\* C19: in the table that is set, every entry stands under the public key
\* derived from its own signing key (so no two entries share one); an
\* identifier is in the table exactly when a supplied key derives it; and
\* a closure that has run got past the lookup (called verify) exactly when
\* a supplied key derives the issuer its record names.
C19_KeyedByDerivedKey ==
    KEYS.set =>
        /\ \A pk \in DOMAIN KEYS.map : pk = encode_base64(KEYS.map[pk].k)
        /\ \A pk \in PublicKeys \cup DOMAIN KEYS.map \cup Range(args_keys) :
               pk \in DOMAIN KEYS.map <=> Derives(pk)
        /\ \A j \in JobIds :
               (Decoded(j) /\ sends[j] = 1) =>
                   (j \in verify_calls <=> Derives(RecordOf(j).credential.public_key))

\* The same key was supplied twice and the table has its one entry; one
\* record's lookup has succeeded and another's, naming an issuer no
\* supplied key derives, has failed.
C19_Witness ==
    /\ KEYS.set
    /\ Len(args_keys) = 2
    /\ Cardinality(DOMAIN KEYS.map) = 1
    /\ \E j1, j2 \in JobIds :
          /\ Decoded(j1) /\ sends[j1] = 1 /\ j1 \in verify_calls
          /\ Decoded(j2) /\ sends[j2] = 1 /\ j2 \notin verify_calls

(***************************************************************************)
(* tools/cbp-dump-processor/src/main.rs: every row of stdin is written to  *)
(* stdout with the public key of its second field appended.  A row is the  *)
(* sequence of its fields.  The writer's buffer is flushed when it is      *)
(* dropped, on every way out of main.                                      *)
(***************************************************************************)
MaxDumpRows == 3    \* most rows on stdin
MaxFields == 3      \* most fields of a row

\* Rows: a first field, and after it a private key and further fields.
DumpRows ==
    {<<"i">>} \cup
    {<<"i", k>> \o [x \in 1..n |-> "i"] : k \in RawKeys, n \in 0..(MaxFields - 2)}

DumpInputs == UNION {[1..n -> DumpRows] : n \in 0..MaxDumpRows}

\* rdr.records(): the reader is not flexible, a record whose number of
\* fields differs from the first record's is an Err(UnequalLengths).
ReadRecord(rows, i) ==
    IF Len(rows[i]) = Len(rows[1])
    THEN [ok |-> TRUE, record |-> rows[i]]
    ELSE [ok |-> FALSE, record |-> <<>>]

\* The public key written over the record's last field.
PushFieldOver(record, field) == [record EXCEPT ![Len(record)] = field]

\* StringRecord::push_field
PushField(record, field) == Append(record, field)

\* The program is started on an input.
DumpStart ==
    /\ dump_pc = "idle"
    /\ \E rows \in DumpInputs : stdin_rows' = rows
    /\ dump_pc' = "running"
    /\ UNCHANGED <<main_vars, esc_vars, rdr_pos, stdout_rows>>

\* main.rs 31-43, one iteration of the loop.
DumpStep ==
    /\ dump_pc = "running"
    /\ rdr_pos < Len(stdin_rows)
    /\ rdr_pos' = rdr_pos + 1
    /\ LET result == ReadRecord(stdin_rows, rdr_pos + 1)
           record == result.record
       IN  IF ~result.ok
           THEN dump_pc' = "error" /\ stdout_rows' = stdout_rows
           ELSE IF Len(record) < 2
           THEN dump_pc' = "panic" /\ stdout_rows' = stdout_rows
           ELSE LET private_key == record[2]
                    decoded == decode_base64(private_key)
                IN  IF ~decoded.ok
                    THEN dump_pc' = "error" /\ stdout_rows' = stdout_rows
                    ELSE /\ dump_pc' = dump_pc
                         /\ stdout_rows' =
                                Append(stdout_rows,
                                       PushField(record, decoded.key.public_key))
    /\ UNCHANGED <<main_vars, esc_vars, stdin_rows>>

\* main.rs 31, 44: the reader is exhausted, Ok(()).
DumpEnd ==
    /\ dump_pc = "running"
    /\ rdr_pos = Len(stdin_rows)
    /\ dump_pc' = "done"
    /\ UNCHANGED <<main_vars, esc_vars, stdin_rows, rdr_pos, stdout_rows>>

DumpNext == DumpStart \/ DumpStep \/ DumpEnd

DumpSpec == AtRest /\ [][DumpNext]_vars

\* The row has a second field and it decodes as a private key.
KeyDecodes(row) == Len(row) >= 2 /\ decode_base64(row[2]).ok

\* The loop gets through the i-th row: the reader yields it, and its key
\* decodes.
Passes(i) == ReadRecord(stdin_rows, i).ok /\ KeyDecodes(stdin_rows[i])

\* The row written for an input row.
Augmented(row) == row \o <<encode_base64(decode_base64(row[2]).key.k)>>

DumpStopped == dump_pc \in {"error", "panic"}

\* What is on stdout is the first rows of stdin, in order, each with the
\* public key of its second field as one more field.
DumpOutputIsPrefix ==
    /\ Len(stdout_rows) <= Len(stdin_rows)
    /\ \A i \in DOMAIN stdout_rows : stdout_rows[i] = Augmented(stdin_rows[i])

\* C20 as stated: when every row's private key decodes the run does not
\* stop early and ends with one output row per input row; and a run that
\* stops, stops at a row whose key does not decode, with exactly the rows
\* before it written.
C20_StopsOnlyOnBadKey ==
    /\ DumpOutputIsPrefix
    /\ (\A i \in DOMAIN stdin_rows : KeyDecodes(stdin_rows[i])) =>
           /\ ~DumpStopped
           /\ dump_pc = "done" => Len(stdout_rows) = Len(stdin_rows)
    /\ DumpStopped =>
           /\ ~KeyDecodes(stdin_rows[rdr_pos])
           /\ Len(stdout_rows) = rdr_pos - 1

\* C20: the rows are read once, in order, and while the program runs every
\* row read has been written, with the public key of its second field as
\* one more field; when every row has the field count of the first row and
\* a second field that decodes, the run ends with one output row per input
\* row; otherwise it stops at the first row that the reader rejects (its
\* field count is not the first row's), that has no second field, or
\* whose key does not decode, with exactly the rows before it written.
C20_SinglePassTransform ==
    /\ DumpOutputIsPrefix
    /\ rdr_pos <= Len(stdin_rows)
    /\ dump_pc = "running" => Len(stdout_rows) = rdr_pos /\ ENABLED DumpNext
    /\ dump_pc = "done" =>
           /\ Len(stdout_rows) = Len(stdin_rows)
           /\ \A i \in DOMAIN stdin_rows : Passes(i)
    /\ (\A i \in DOMAIN stdin_rows : Passes(i)) => ~DumpStopped
    /\ DumpStopped =>
           /\ rdr_pos >= 1
           /\ ~Passes(rdr_pos)
           /\ \A i \in 1..(rdr_pos - 1) : Passes(i)
           /\ Len(stdout_rows) = rdr_pos - 1

\* The second of three rows has a key that does not decode: the run has
\* stopped with the first row written, its public key appended, and
\* nothing for the rows after it.
C20_Witness ==
    /\ dump_pc = "error"
    /\ Len(stdin_rows) = 3
    /\ rdr_pos = 2
    /\ Len(stdin_rows[2]) = Len(stdin_rows[1])
    /\ ~KeyDecodes(stdin_rows[2])
    /\ KeyDecodes(stdin_rows[3])
    /\ stdout_rows = <<stdin_rows[1] \o <<"P2">> >>

====
